---- MODULE Spec2Model ----
(***************************************************************************)
(* Model of src/src/drv-iio-buffer-accel.c: the IIO buffered accelerometer *)
(* driver.  The state is the driver's global session pointer (drv_data),   *)
(* the function-static reassembly counter of read_orientation              *)
(* (read_size_ctr), the GLib main loop's set of installed sources, the     *)
(* byte stream behind the GIOChannel, and the locals of a running          *)
(* read_orientation invocation.  The host calls open / set_polling / close *)
(* from one thread, balanced (open only without a session, the others only *)
(* with one); the main loop dispatches read_orientation while a watch is   *)
(* installed.                                                              *)
(***************************************************************************)
EXTENDS Integers, Sequences, FiniteSets, TLC

\* ---------------------------------------------------------------- bounds
\* largest scan_size a negotiated buffer session may declare
MaxScanSize == 3
\* largest number of bytes the stream makes readable in one piece
MaxChunk == 3
\* largest number of pieces queued in the stream at once
MaxPending == 2
\* bytes a single session's stream delivers before it dries up
MaxBytes == 4
\* source ids the main loop hands out are drawn from 1..MaxSourceId
MaxSourceId == 2
\* gsize is an unsigned machine word; the model keeps the wrap-around of
\* unsigned subtraction with a word of this many bits (wider than every
\* value the bounded model produces)
GSizeBits == 12
\* largest number of devices the udev client enumerates on the iio subsystem
MaxRegistry == 2

GSizeMod == 2 ^ GSizeBits

ScanSizes == 1..MaxScanSize
ChunkSizes == 1..MaxChunk
SourceIds == 1..MaxSourceId
Devices == {"iio:device0"}
Callbacks == {"callback_func"}
UserDatas == {"ctx1", "ctx2"}

VARIABLES
    drv_data,       \* the global DrvData pointer: NullDrv or the struct
    read_size_ctr,  \* static gsize read_size_ctr of read_orientation
    sources,        \* ids of the sources installed in the GLib main loop
    nonblock,       \* G_IO_FLAG_NONBLOCK is set on the session's channel
    pending,        \* sizes of the pieces readable from the channel, in order
    pc,             \* "idle", "reading" (inside read_orientation) or "aborted"
    rd,             \* locals of the running read_orientation invocation
    res,            \* life cycle of every resource the driver acquires
    trace,          \* collaborator calls made by the last driver operation
    last_op,        \* the last driver operation, its arguments and its result
    sess,           \* observation of the current session since open
    inv,            \* observation of the current / last Scan Reader invocation
    probe           \* the last discover / get_trigger_name call and its result

vars == <<drv_data, read_size_ctr, sources, nonblock, pending, pc, rd, res,
          trace, last_op, sess, inv, probe>>

\* ------------------------------------------------------------ DrvData
NullDrv == [null |-> TRUE]

\* g_new0 (DrvData, 1): every field zero
ZeroDrv ==
    [gio_r |-> "NULL", io_source |-> 0, callback_func |-> "NULL",
     user_data |-> "NULL", dev |-> "NULL", buffer_data |-> 0]

Opened == drv_data # NullDrv

\* or_data->buffer_data->scan_size (a BufferDrvData is modelled by its
\* scan_size; 0 stands for the NULL pointer)
ScanSize(d) == d.buffer_data

\* ---------------------------------------------------------- resources
Resources == {"drv_data", "trigger_name", "buffer_data", "gio_r", "dev"}

Acquire(rs, r) == [rs EXCEPT ![r] = IF @ = "live" THEN "leaked" ELSE "live"]
Release(rs, r) == [rs EXCEPT ![r] = IF @ = "live" THEN "freed" ELSE "double"]

RECURSIVE ApplyCalls(_, _)
ApplyCalls(rs, calls) ==
    IF calls = <<>> THEN rs
    ELSE LET c == Head(calls)
             rs1 == CASE c[1] = "acquire" -> Acquire(rs, c[2])
                      [] c[1] = "release" -> Release(rs, c[2])
                      [] OTHER -> rs
         IN ApplyCalls(rs1, Tail(calls))

\* ------------------------------------------------------- observations
NoOp == [op |-> "none", arg |-> "none", ret |-> "none", pre_source |-> 0]

\* probe: op = "discover" or "get_trigger_name", device = the GUdevDevice
\* passed, devices = the name attributes of the devices the udev client
\* enumerated, ret = the value returned, handles = life cycle of the client,
\* of every enumerated device reference and of the trigger_name string
NoProbe ==
    [op |-> "none", device |-> [subsystem |-> "NULL", name |-> "NULL",
                                number |-> "0"],
     devices |-> <<>>, ret |-> "none", handles |-> <<>>]

\* sess: ctr0 = read_size_ctr when the session was opened, bytes = bytes read
\* from the stream so far (also the stream offset of the next byte), cbs =
\* callbacks delivered, ref_ctr = the counter a first-ever session (static
\* counter 0 at open) would hold after the same stream contents
\* ctx = the context the host passed to open
FreshSess(ctr) ==
    [ctr0 |-> ctr, bytes |-> 0, cbs |-> 0, ref_ctr |-> 0, ctx |-> "none"]

\* inv: start_bytes = sess.bytes at entry, pre_ctr / n / rec = counter
\* before, size of and stream offset of the last successful read (n = -1:
\* none yet), captures = records captured (line 93), all_partial = every read
\* so far was shorter than scan_size, last_full = stream offset of the last
\* read of at least scan_size bytes, cbs = callbacks made, cb_* = arguments
\* of the last callback, ref_cb = a first-ever session would call back,
\* returned = the invocation returned, overflow = a read wrote past
\* buff.data, uaf = process_scan read a block that had been freed, raw /
\* scales = what process_scan_1 extracted from the record for x, y, z,
\* reading = the AccelReadings passed to the callback
NoInv ==
    [start_bytes |-> 0, pre_ctr |-> 0, n |-> -1, rec |-> -1, captures |-> 0,
     all_partial |-> TRUE, last_full |-> -1, cbs |-> 0, cb_tag |-> "none", cb_rec |-> -1,
     cb_ctx |-> "none", ref_cb |-> FALSE, returned |-> FALSE,
     overflow |-> FALSE, uaf |-> FALSE, raw |-> <<0, 0, 0>>,
     scales |-> <<0, 0, 0>>, reading |-> <<0, 0, 0>>]

\* locals of read_orientation: status, data.data (stream offset of the
\* captured read, -1 for NULL), buff.read_size, and the scratch buffers:
\* buff_ptr / data_ptr = the blocks buff.data / data.data point to (blocks
\* are numbered in g_malloc order, 0 is NULL), live = blocks not yet freed,
\* mallocs / frees = calls made, bad = a g_free hit a block that was not live
NoLocals ==
    [status |-> "none", data |-> -1, read_size |-> 0, buff_ptr |-> 0,
     data_ptr |-> 0, live |-> {}, mallocs |-> 0, frees |-> 0, bad |-> FALSE]

\* g_malloc (buf_size) and g_free (p) on the locals' view of the heap
Malloc(l) == [l EXCEPT !.mallocs = @ + 1, !.live = @ \cup {l.mallocs + 1}]

Free(l, p) ==
    [l EXCEPT !.frees = @ + 1, !.live = @ \ {p}, !.bad = @ \/ p \notin l.live]

Init ==
    /\ drv_data = NullDrv
    /\ read_size_ctr = 0
    /\ sources = {}
    /\ nonblock = FALSE
    /\ pending = <<>>
    /\ pc = "idle"
    /\ rd = NoLocals
    /\ res = [r \in Resources |-> "none"]
    /\ trace = <<>>
    /\ last_op = NoOp
    /\ sess = FreshSess(0)
    /\ inv = NoInv
    /\ probe = NoProbe

\* ------------------------------------------------------ Poll Controller
\* iio_buffer_accel_set_polling (state), as a function of the session struct
\* and the main loop's sources; id is the id g_io_add_watch returns.
\* g_source_remove of an id that is not installed is logged as "bad".
set_polling_no_early_return(d, srcs, state, id) ==
    IF d.io_source = 0 /\ ~state
    THEN [drv |-> d, sources |-> srcs, calls |-> <<>>]
    ELSE LET had == d.io_source # 0
             d1 == IF had THEN [d EXCEPT !.io_source = 0] ELSE d
             s1 == IF had THEN srcs \ {d.io_source} ELSE srcs
             c1 == IF had
                   THEN << <<"g_source_remove",
                             IF d.io_source \in srcs THEN "ok" ELSE "bad">> >>
                   ELSE <<>>
         IN IF state
            THEN [drv |-> [d1 EXCEPT !.io_source = id],
                  sources |-> s1 \cup {id},
                  calls |-> c1 \o << <<"g_io_add_watch", "ok">> >>]
            ELSE [drv |-> d1, sources |-> s1, calls |-> c1]

set_polling(d, srcs, state, id) ==
    IF d.io_source > 0 /\ state
    THEN [drv |-> d, sources |-> srcs, calls |-> <<>>]
    ELSE IF d.io_source = 0 /\ ~state
    THEN [drv |-> d, sources |-> srcs, calls |-> <<>>]
    ELSE LET had == d.io_source # 0
             d1 == IF had THEN [d EXCEPT !.io_source = 0] ELSE d
             s1 == IF had THEN srcs \ {d.io_source} ELSE srcs
             c1 == IF had
                   THEN << <<"g_source_remove",
                             IF d.io_source \in srcs THEN "ok" ELSE "bad">> >>
                   ELSE <<>>
         IN IF state
            THEN [drv |-> [d1 EXCEPT !.io_source = id],
                  sources |-> s1 \cup {id},
                  calls |-> c1 \o << <<"g_io_add_watch", "ok">> >>]
            ELSE [drv |-> d1, sources |-> s1, calls |-> c1]

iio_buffer_accel_set_polling(state) ==
    /\ pc = "idle"
    /\ Opened
    /\ \E id \in SourceIds \ sources :
          LET sp == set_polling(drv_data, sources, state, id)
          IN /\ drv_data' = sp.drv
             /\ sources' = sp.sources
             /\ trace' = sp.calls
             /\ last_op' = [op |-> "set_polling",
                            arg |-> IF state THEN "TRUE" ELSE "FALSE",
                            ret |-> "void",
                            pre_source |-> drv_data.io_source]
    /\ UNCHANGED <<probe, read_size_ctr, nonblock, pending, pc, rd, res, sess, inv>>

\* ------------------------------------------------------- Driver Session
OpenOutcomes ==
    {"Ok", "NoTrigger", "BufferNegotiationFailed", "StreamOpenFailed",
     "EncodingFailed", "NonBlockFailed"}

\* the allocations and releases iio_buffer_accel_open performs, in order,
\* up to the point where it returns or g_error () aborts the process
OpenCalls(outcome) ==
    LET got_trigger ==
            << <<"acquire", "drv_data">>, <<"acquire", "trigger_name">> >>
        got_buffer ==
            got_trigger \o
            << <<"acquire", "buffer_data">>, <<"release", "trigger_name">>,
               <<"acquire", "dev">> >>
    IN CASE outcome = "NoTrigger" ->
              got_trigger \o
              << <<"release", "trigger_name">>, <<"release", "drv_data">> >>
         [] outcome = "BufferNegotiationFailed" ->
              got_trigger \o
              << <<"release", "trigger_name">>, <<"release", "drv_data">> >>
         [] outcome = "StreamOpenFailed" ->
              got_buffer \o << <<"g_error", "abort">> >>
         [] outcome = "EncodingFailed" ->
              got_buffer \o
              << <<"acquire", "gio_r">>, <<"g_error", "abort">> >>
         [] OTHER -> got_buffer \o << <<"acquire", "gio_r">> >>

\* what iio_buffer_accel_open leaves in drv_data
OpenDrv(device, callback_func, user_data, outcome, S) ==
    LET filled == [ZeroDrv EXCEPT !.buffer_data = S, !.dev = device,
                                  !.callback_func = callback_func,
                                  !.user_data = user_data]
    IN CASE outcome \in {"NoTrigger", "BufferNegotiationFailed"} -> NullDrv
         [] outcome = "StreamOpenFailed" -> filled
         [] OTHER -> [filled EXCEPT !.gio_r = "channel"]

\* g_error () is always fatal: the process aborts inside open
OpenAborts_nonblock_fatal(outcome) ==
    outcome \in {"StreamOpenFailed", "EncodingFailed", "NonBlockFailed"}

OpenAborts(outcome) == outcome \in {"StreamOpenFailed", "EncodingFailed"}

OpenReturn(outcome) ==
    CASE OpenAborts(outcome) -> "abort"
      [] outcome \in {"NoTrigger", "BufferNegotiationFailed"} -> "FALSE"
      [] OTHER -> "TRUE"

iio_buffer_accel_open(device, callback_func, user_data, outcome, S) ==
    /\ pc = "idle"
    /\ ~Opened
    /\ drv_data' = OpenDrv(device, callback_func, user_data, outcome, S)
    /\ trace' = OpenCalls(outcome)
    /\ res' = ApplyCalls(res, OpenCalls(outcome))
    /\ pc' = IF OpenAborts(outcome) THEN "aborted" ELSE "idle"
    /\ nonblock' = (outcome = "Ok")
    /\ pending' = <<>>
    /\ sess' = [FreshSess(read_size_ctr) EXCEPT !.ctx = user_data]
    /\ inv' = NoInv
    /\ last_op' = [op |-> "open", arg |-> outcome, ret |-> OpenReturn(outcome),
                   pre_source |-> 0]
    /\ UNCHANGED <<probe, read_size_ctr, sources, rd>>

\* the releases of iio_buffer_accel_close after set_polling (FALSE)
CloseReleases_reordered ==
    << <<"release", "gio_r">>, <<"release", "buffer_data">>,
       <<"release", "dev">>, <<"release", "drv_data">> >>

CloseReleases ==
    << <<"release", "buffer_data">>, <<"release", "gio_r">>,
       <<"release", "dev">>, <<"release", "drv_data">> >>

\* the set_polling (FALSE) call that opens iio_buffer_accel_close
ClosePolling_skipped(d, srcs) == [drv |-> d, sources |-> srcs, calls |-> <<>>]

ClosePolling(d, srcs) == set_polling(d, srcs, FALSE, 0)

iio_buffer_accel_close ==
    /\ pc = "idle"
    /\ Opened
    /\ LET sp == ClosePolling(drv_data, sources)
           calls == sp.calls \o CloseReleases
       IN /\ sources' = sp.sources
          /\ trace' = calls
          /\ res' = ApplyCalls(res, calls)
          /\ last_op' = [op |-> "close", arg |-> "none", ret |-> "void",
                         pre_source |-> drv_data.io_source]
    /\ drv_data' = NullDrv
    /\ nonblock' = FALSE
    /\ pending' = <<>>
    /\ UNCHANGED <<probe, read_size_ctr, pc, rd, sess, inv>>

\* ------------------------------------------- discovery and trigger lookup
\* what udev reports of a device: "NULL" stands for the NULL pointer that
\* g_udev_device_get_subsystem / g_udev_device_get_sysfs_attr return for a
\* value that is absent
Subsystems == {"iio", "usb", "NULL"}
NameAttrs == {"accel_3d", "accel_3d-dev3", "NULL"}
DeviceNumbers == {"0", "3"}
UdevDevices ==
    [subsystem : Subsystems, name : NameAttrs, number : DeviceNumbers]

\* the list g_udev_client_query_by_subsystem returns, each device by its
\* name attribute
RegistryNames == {"accel_3d", "accel_3d-dev3", "NULL"}
Registries == UNION {[1..k -> RegistryNames] : k \in 0..MaxRegistry}

\* g_strcmp0: NULL-safe, 0 exactly for equal strings (or two NULLs)
g_strcmp0(str1, str2) == IF str1 = str2 THEN 0 ELSE 1

\* lines 149-157
discover_name_only(device) ==
    IF g_strcmp0("accel_3d", device.name) # 0 THEN "FALSE" ELSE "TRUE"

discover(device) ==
    IF g_strcmp0(device.subsystem, "iio") # 0 THEN "FALSE"
    ELSE IF g_strcmp0("accel_3d", device.name) # 0 THEN "FALSE"
    ELSE "TRUE"

iio_buffer_accel_discover(device) ==
    /\ probe' = [NoProbe EXCEPT !.op = "discover", !.device = device,
                                !.ret = discover(device)]
    /\ UNCHANGED <<drv_data, read_size_ctr, sources, nonblock, pending, pc,
                   rd, res, trace, last_op, sess, inv>>

\* lines 125-133: the loop over the enumerated devices, left at the first
\* device whose name attribute is trigger_name
has_trigger_first_device(trigger_name, devices) ==
    devices # <<>> /\ g_strcmp0(trigger_name, Head(devices)) = 0

RECURSIVE has_trigger(_, _)
has_trigger(trigger_name, devices) ==
    IF devices = <<>> THEN FALSE
    ELSE IF g_strcmp0(trigger_name, Head(devices)) = 0 THEN TRUE
    ELSE has_trigger(trigger_name, Tail(devices))

\* the references get_trigger_name holds: the client, one per enumerated
\* device, and the trigger_name string
LookupHandles(devices) ==
    {<<"client", 0>>, <<"trigger_name", 0>>}
        \cup {<<"dev", i>> : i \in 1..Len(devices)}

\* lines 120-144: the calls that take and drop a reference, in order, and
\* the value returned
get_trigger_name(device, devices) ==
    LET trigger_name == "accel_3d-dev" \o device.number
        found == has_trigger(trigger_name, devices)
        calls == <<<<"acquire", <<"client", 0>>>>>>
                 \o [i \in 1..Len(devices) |-> <<"acquire", <<"dev", i>>>>]
                 \o <<<<"acquire", <<"trigger_name", 0>>>>>>
                 \o [i \in 1..Len(devices) |-> <<"release", <<"dev", i>>>>]
                 \o <<<<"release", <<"client", 0>>>>>>
                 \o (IF found THEN <<>>
                     ELSE <<<<"release", <<"trigger_name", 0>>>>>>)
    IN [ret |-> IF found THEN trigger_name ELSE "NULL",
        handles |-> ApplyCalls([h \in LookupHandles(devices) |-> "none"],
                               calls)]

\* open's first step on a device that discover accepted, against what the
\* udev client enumerates at that moment
call_get_trigger_name(device, devices) ==
    /\ LET r == get_trigger_name(device, devices)
       IN probe' = [NoProbe EXCEPT !.op = "get_trigger_name",
                                   !.device = device, !.devices = devices,
                                   !.ret = r.ret, !.handles = r.handles]
    /\ UNCHANGED <<drv_data, read_size_ctr, sources, nonblock, pending, pc,
                   rd, res, trace, last_op, sess, inv>>

\* ---------------------------------------------------------- the stream
RECURSIVE SumSeq(_)
SumSeq(q) == IF q = <<>> THEN 0 ELSE Head(q) + SumSeq(Tail(q))

Min(a, b) == IF a <= b THEN a ELSE b

\* the kernel makes n more bytes readable.  While a non-blocking drain is
\* running nothing is added: the drain sees the pieces in order either way,
\* so bytes arriving during it behave as bytes that arrived before it.  A
\* blocking read (non-blocking mode could not be set) waits for them.
Arrive(n) ==
    /\ Opened
    /\ \/ pc = "idle"
       \/ pc = "reading" /\ ~nonblock /\ pending = <<>>
    /\ Len(pending) < MaxPending
    /\ sess.bytes + SumSeq(pending) + n <= MaxBytes
    /\ pending' = Append(pending, n)
    /\ UNCHANGED <<probe, drv_data, read_size_ctr, sources, nonblock, pc, rd, res,
                   trace, last_op, sess, inv>>

\* g_io_channel_read_chars (channel, buff.data, count, &read_size, &gerr) on
\* a stream holding the pieces p: a count of 0 returns NORMAL with 0 bytes,
\* an empty stream reports AGAIN, otherwise the head piece is read, up to
\* count bytes of it
ReadChars(p, count) ==
    IF count = 0 THEN [status |-> "NORMAL", n |-> 0, rest |-> p]
    ELSE IF p = <<>> THEN [status |-> "AGAIN", n |-> 0, rest |-> p]
    ELSE LET n == Min(count, Head(p))
         IN [status |-> "NORMAL", n |-> n,
             rest |-> IF n = Head(p) THEN Tail(p)
                      ELSE <<Head(p) - n>> \o Tail(p)]

\* --------------------------------------------------------- Scan Reader
\* buf_size - read_size_ctr, in gsize arithmetic (lines 85 and 87)
ReadCount(buf_size, ctr) == (buf_size - ctr + GSizeMod) % GSizeMod

\* lines 89-90: read_size_ctr += read_size; if it reached buf_size, take
\* read_size off again
Accumulate_no_rollback(ctr, n, buf_size) == (ctr + n) % GSizeMod

Accumulate(ctr, n, buf_size) ==
    LET c1 == (ctr + n) % GSizeMod
    IN IF c1 >= buf_size THEN (c1 - n + GSizeMod) % GSizeMod ELSE c1

\* line 91: the read is kept as the latest complete record
Captures_on_any_read(n, buf_size) == n >= 1

Captures(n, buf_size) == n >= buf_size

\* the whole read loop of a first-ever, non-blocking session whose counter
\* is ctr, on a stream holding the pieces p: the counter it ends with and
\* whether a record was captured
RECURSIVE Drain(_, _, _, _)
Drain(ctr, p, buf_size, got) ==
    CHOOSE out \in
       { IF r.status # "NORMAL" \/ r.n = 0 THEN [ctr |-> ctr, got |-> got]
         ELSE Drain(Accumulate(ctr, r.n, buf_size), r.rest, buf_size,
                    got \/ Captures(r.n, buf_size))
         : r \in {ReadChars(p, ReadCount(buf_size, ctr))} } : TRUE

\* the main loop dispatches the watch: lines 69-83, up to the first read
read_orientation_enter ==
    /\ pc = "idle"
    /\ Opened
    /\ drv_data.io_source > 0
    /\ drv_data.io_source \in sources
    /\ pc' = "reading"
    /\ rd' = [Malloc(NoLocals) EXCEPT !.buff_ptr = 1]
    /\ LET ref == Drain(sess.ref_ctr, pending, ScanSize(drv_data), FALSE)
       IN /\ inv' = [NoInv EXCEPT !.start_bytes = sess.bytes,
                                  !.pre_ctr = read_size_ctr,
                                  !.ref_cb = ref.got]
          /\ sess' = [sess EXCEPT !.ref_ctr = ref.ctr]
    /\ trace' = <<>>
    /\ last_op' = [op |-> "read_orientation", arg |-> "G_IO_IN",
                   ret |-> "running", pre_source |-> drv_data.io_source]
    /\ UNCHANGED <<probe, drv_data, read_size_ctr, sources, nonblock, pending, res>>

\* lines 92-95: the previous record, if any, is freed, data takes over the
\* block of buff and buff gets a new block; offset is the stream offset of
\* the bytes just read
Capture_leak_previous(l, offset) ==
    LET l2 == Malloc(l)
    IN [l2 EXCEPT !.data = offset, !.data_ptr = l.buff_ptr,
                  !.buff_ptr = l2.mallocs]

Capture(l, offset) ==
    LET l1 == IF l.data_ptr # 0 THEN Free(l, l.data_ptr) ELSE l
        l2 == Malloc(l1)
    IN [l2 EXCEPT !.data = offset, !.data_ptr = l.buff_ptr,
                  !.buff_ptr = l2.mallocs]

\* one pass of the for loop whose read returns G_IO_STATUS_NORMAL: the read
\* and the loop body, lines 85-97
LoopPass(r, buf_size) ==
    LET n == r.n
        cap == Captures(n, buf_size)
        l0 == [rd EXCEPT !.status = "NORMAL", !.read_size = n]
    IN /\ pending' = r.rest
       /\ read_size_ctr' = Accumulate(read_size_ctr, n, buf_size)
       /\ rd' = IF cap THEN Capture(l0, sess.bytes) ELSE l0
       /\ sess' = [sess EXCEPT !.bytes = @ + n]
       /\ inv' = [inv EXCEPT !.pre_ctr = read_size_ctr, !.n = n,
                             !.rec = sess.bytes,
                             !.captures = IF cap THEN @ + 1 ELSE @,
                             !.all_partial = @ /\ n < buf_size,
                             !.last_full = IF n >= buf_size THEN sess.bytes
                                           ELSE @,
                             !.overflow = @ \/ n > buf_size]

read_orientation_read ==
    /\ pc = "reading"
    /\ LET buf_size == ScanSize(drv_data)
           r == ReadChars(pending, ReadCount(buf_size, read_size_ctr))
       IN /\ r.status = "NORMAL"
          /\ LoopPass(r, buf_size)
    /\ UNCHANGED <<probe, drv_data, sources, nonblock, pc, res, trace, last_op>>

\* what process_scan_1 may extract from a record: the raw values of
\* in_accel_x, in_accel_y, in_accel_z and the scale of each channel.  The
\* scale is a gdouble; it is kept as an exact multiple of 0.1 (scale 1 is
\* 0.1), so readings are in tenths of m/s^2.  All three channels are present.
RawSamples == {<<10, 20, 30>>, <<-3, 0, 7>>}
ChannelScales == {<<1, 1, 1>>, <<2, 2, 2>>, <<1, 1, 2>>}

\* lines 43-58: the three process_scan_1 calls write the same scale variable
\* (the last one, for z, stays), x and y are negated, each value is
\* multiplied by scale
Decode_invert_all(raw, scales) ==
    LET scale == scales[3]
    IN <<(-raw[1]) * scale, (-raw[2]) * scale, (-raw[3]) * scale>>

Decode(raw, scales) ==
    LET scale == scales[3]
        accel_x == -raw[1]
        accel_y == -raw[2]
        accel_z == raw[3]
    IN <<accel_x * scale, accel_y * scale, accel_z * scale>>

\* process_scan (data, or_data), lines 35-62: one callback with this
\* driver's tag, the readings decoded from the record and the stored context
process_scan_per_capture(data, or_data) ==
    /\ \E raw \in RawSamples, scales \in ChannelScales :
          inv' = [inv EXCEPT !.cbs = @ + inv.captures,
                             !.cb_tag = "iio_buffer_accel",
                             !.cb_rec = data.data,
                             !.cb_ctx = or_data.user_data,
                             !.uaf = data.data_ptr \notin data.live,
                             !.raw = raw, !.scales = scales,
                             !.reading = Decode(raw, scales),
                             !.returned = TRUE]
    /\ sess' = [sess EXCEPT !.cbs = @ + inv.captures]

process_scan(data, or_data) ==
    /\ \E raw \in RawSamples, scales \in ChannelScales :
          inv' = [inv EXCEPT !.cbs = @ + 1, !.cb_tag = "iio_buffer_accel",
                             !.cb_rec = data.data,
                             !.cb_ctx = or_data.user_data,
                             !.uaf = data.data_ptr \notin data.live,
                             !.raw = raw, !.scales = scales,
                             !.reading = Decode(raw, scales),
                             !.returned = TRUE]
    /\ sess' = [sess EXCEPT !.cbs = @ + 1]

\* lines 101-106: after process_scan the record's block and the block of
\* buff are freed
ReleaseScratch(l) ==
    LET l1 == IF l.data_ptr # 0 THEN Free(l, l.data_ptr) ELSE l
    IN [Free(l1, l.buff_ptr) EXCEPT !.data = -1, !.data_ptr = 0,
                                    !.buff_ptr = 0]

\* line 108: what read_orientation returns to the main loop
HandlerReturn_remove == "G_SOURCE_REMOVE"

HandlerReturn == "G_SOURCE_CONTINUE"

\* the end of the loop and the rest of read_orientation once the last read
\* reported status (lines 101-108); the main loop drops the source unless
\* the handler returns G_SOURCE_CONTINUE
LeaveLoop(status) ==
    /\ IF rd.data_ptr # 0
       THEN process_scan(rd, drv_data)
       ELSE /\ inv' = [inv EXCEPT !.returned = TRUE]
            /\ sess' = sess
    /\ rd' = [ReleaseScratch(rd) EXCEPT !.status = status]
    /\ pc' = "idle"
    /\ sources' = IF HandlerReturn = "G_SOURCE_CONTINUE" THEN sources
                  ELSE sources \ {drv_data.io_source}
    /\ last_op' = [last_op EXCEPT !.ret = HandlerReturn]
    /\ UNCHANGED <<probe, drv_data, read_size_ctr, nonblock, pending, res, trace>>

\* the read reports G_IO_STATUS_AGAIN: the loop ends, lines 99-108
read_orientation_again ==
    /\ pc = "reading"
    /\ nonblock
    /\ LET buf_size == ScanSize(drv_data)
           r == ReadChars(pending, ReadCount(buf_size, read_size_ctr))
       IN r.status = "AGAIN"
    /\ LeaveLoop("AGAIN")

\* the read reports G_IO_STATUS_ERROR or G_IO_STATUS_EOF: the assertion of
\* line 99 fails and the process aborts
read_orientation_fail_unchecked(status) ==
    /\ pc = "reading"
    /\ status \in {"ERROR", "EOF"}
    /\ LeaveLoop(status)

read_orientation_fail(status) ==
    /\ pc = "reading"
    /\ status \in {"ERROR", "EOF"}
    /\ pc' = "aborted"
    /\ rd' = [rd EXCEPT !.status = status]
    /\ last_op' = [last_op EXCEPT !.ret = "abort"]
    /\ UNCHANGED <<probe, drv_data, read_size_ctr, sources, nonblock, pending, res,
                   trace, sess, inv>>

\* a read longer than buf_size wrote past the end of buff.data (the count
\* had wrapped): undefined behaviour, which may also end the process
read_orientation_smash ==
    /\ pc = "reading"
    /\ inv.overflow
    /\ pc' = "aborted"
    /\ last_op' = [last_op EXCEPT !.ret = "crash"]
    /\ UNCHANGED <<probe, drv_data, read_size_ctr, sources, nonblock, pending, rd,
                   res, trace, sess, inv>>

Next ==
    \/ \E device \in Devices, callback_func \in Callbacks,
          user_data \in UserDatas, outcome \in OpenOutcomes, S \in ScanSizes :
          iio_buffer_accel_open(device, callback_func, user_data, outcome, S)
    \/ \E state \in BOOLEAN : iio_buffer_accel_set_polling(state)
    \/ iio_buffer_accel_close
    \/ \E n \in ChunkSizes : Arrive(n)
    \/ read_orientation_enter
    \/ read_orientation_read
    \/ read_orientation_again
    \/ \E status \in {"ERROR", "EOF"} : read_orientation_fail(status)
    \/ read_orientation_smash

Spec == Init /\ [][Next]_vars

\* the host's calls while the stream is silent: discovery, the trigger
\* lookup, and the session life cycle
NextProbe ==
    \/ \E device \in UdevDevices : iio_buffer_accel_discover(device)
    \/ \E device \in {d \in UdevDevices : discover(d) = "TRUE"},
          devices \in Registries :
          call_get_trigger_name(device, devices)
    \/ \E device \in Devices, callback_func \in Callbacks,
          user_data \in UserDatas, outcome \in OpenOutcomes, S \in ScanSizes :
          iio_buffer_accel_open(device, callback_func, user_data, outcome, S)
    \/ \E state \in BOOLEAN : iio_buffer_accel_set_polling(state)
    \/ iio_buffer_accel_close

SpecProbe == Init /\ [][NextProbe]_vars

\* the same program under the scheduling the main loop and the device give:
\* a readable channel with an installed watch is dispatched, a running
\* read_orientation goes on to its next read and to its return, and the
\* stream goes on delivering data while it has any
SpecLive ==
    /\ Spec
    /\ WF_vars(read_orientation_enter /\ pending # <<>>)
    /\ WF_vars(read_orientation_read)
    /\ WF_vars(read_orientation_again)
    /\ WF_vars(\E n \in ChunkSizes : Arrive(n))

\* ================================================================ claims
\* C1: for a record size S >= 2, read chunks whose sizes sum to exactly S,
\* delivered over one or more invocations starting from read_size_ctr = 0,
\* produce exactly one callback in total, made by the invocation that read
\* the S-th byte.
C1_OneCallbackOnCompletingInvocation ==
    ( /\ Opened
      /\ pc = "idle"
      /\ inv.returned
      /\ sess.ctr0 = 0
      /\ ScanSize(drv_data) >= 2
      /\ sess.bytes = ScanSize(drv_data) )
    => /\ sess.cbs = 1
       /\ inv.start_bytes < sess.bytes => inv.cbs = 1

\* C2: whenever a successful read of n bytes brings the counter to the record
\* size or beyond, the bytes read are captured as the latest complete record
\* and the counter is reset to 0, whatever the counter was before the read.
C2_ReachingReadCapturesAndResets ==
    ( /\ pc = "reading"
      /\ inv.n >= 1
      /\ inv.pre_ctr + inv.n >= ScanSize(drv_data) )
    => /\ read_size_ctr = 0
       /\ rd.data = inv.rec

\* C3: while the chunks read since read_size_ctr = 0, over any number of
\* invocations, total less than the record size, no callback has been made
\* and after each invocation the counter equals the sum of the chunk sizes.
C3_BelowRecordSizeNoCallback ==
    ( /\ Opened
      /\ pc = "idle"
      /\ sess.ctr0 = 0
      /\ sess.bytes < ScanSize(drv_data) )
    => /\ sess.cbs = 0
       /\ read_size_ctr = sess.bytes

C3_Witness ==
    /\ Opened
    /\ pc = "idle"
    /\ inv.returned
    /\ sess.ctr0 = 0
    /\ inv.start_bytes > 0
    /\ sess.bytes > inv.start_bytes
    /\ sess.bytes < ScanSize(drv_data)
    /\ read_size_ctr = sess.bytes

\* C4: within an open session, after every invocation that returns,
\* 0 <= read_size_ctr < scan_size.
C4_CounterBelowRecordSize ==
    (Opened /\ pc = "idle" /\ inv.returned)
    => (0 <= read_size_ctr /\ read_size_ctr < ScanSize(drv_data))

C6_SetPollingIdempotent ==
    /\ Cardinality(sources) <= 1
    /\ \A i \in 1..Len(trace) : trace[i] # <<"g_source_remove", "bad">>
    /\ (last_op.op = "set_polling" /\ last_op.arg = "TRUE"
        /\ last_op.pre_source > 0)
       => /\ trace = <<>>
          /\ drv_data.io_source = last_op.pre_source
          /\ sources = {last_op.pre_source}
    /\ (last_op.op = "set_polling" /\ last_op.arg = "FALSE"
        /\ last_op.pre_source = 0)
       => /\ trace = <<>>
          /\ drv_data.io_source = 0
          /\ sources = {}

C6_Witness ==
    /\ last_op.op = "set_polling"
    /\ last_op.arg = "TRUE"
    /\ last_op.pre_source > 0
    /\ sources = {last_op.pre_source}

\* C7: an installed source implies a session with a live stream handle and a
\* live buffer session, read_orientation only runs against such a session,
\* and once close has returned no source is installed.
C7_RegistrationImpliesLiveSession ==
    /\ (sources # {} \/ pc = "reading")
       => /\ Opened
          /\ drv_data.gio_r = "channel"
          /\ drv_data.buffer_data # 0
          /\ res["drv_data"] = "live"
          /\ res["gio_r"] = "live"
          /\ res["buffer_data"] = "live"
    /\ ~Opened => sources = {}

C7_Witness ==
    /\ last_op.op = "close"
    /\ last_op.pre_source > 0
    /\ ~Opened
    /\ sources = {}

\* C8: close first removes the installed source, if any, then releases the
\* buffer session, the stream handle, the device reference and the session
\* object, in this order, each exactly once.
C8_CloseOrder ==
    last_op.op = "close"
    => /\ trace = (IF last_op.pre_source > 0
                   THEN << <<"g_source_remove", "ok">> >> ELSE <<>>)
                  \o << <<"release", "buffer_data">>, <<"release", "gio_r">>,
                        <<"release", "dev">>, <<"release", "drv_data">> >>
       /\ \A r \in Resources : res[r] = "freed"
       /\ ~Opened

C8_Witness ==
    /\ last_op.op = "close"
    /\ last_op.pre_source > 0
    /\ Len(trace) = 5
    /\ res["drv_data"] = "freed"

\* C9: when open fails with NoTrigger, BufferNegotiationFailed or
\* EncodingFailed it returns failure, every resource acquired so far is
\* released and no session exists.
C9_SetupFailureReturnsFalse ==
    ( /\ last_op.op = "open"
      /\ last_op.arg \in {"NoTrigger", "BufferNegotiationFailed",
                          "EncodingFailed"} )
    => /\ last_op.ret = "FALSE"
       /\ ~Opened
       /\ \A r \in Resources : res[r] # "live"

\* C10: a session opened after a close calls back on the same invocations as
\* a first-ever session fed the same stream contents.
C10_ReopenedSessionAsFirst ==
    (Opened /\ pc = "idle" /\ inv.returned) => ((inv.cbs > 0) = inv.ref_cb)
\* C11 (as claimed): a source is installed if and only if the session's
\* stream handle is open.
C11_RegistrationIffStreamOpen ==
    (sources # {}) <=> (Opened /\ drv_data.gio_r = "channel")

\* C11 (amended): a source is installed only while the session's stream
\* handle is open, and it is the one the session stores; a freshly opened
\* session holds an open stream handle and no source.
C11_RegistrationOnlyWithStream ==
    /\ sources # {}
       => /\ Opened
          /\ drv_data.gio_r = "channel"
          /\ sources = {drv_data.io_source}
    /\ (Opened /\ drv_data.io_source > 0) => drv_data.io_source \in sources
    /\ (last_op.op = "open" /\ last_op.ret = "TRUE")
       => (drv_data.gio_r = "channel" /\ sources = {})

C11_Witness ==
    /\ Opened
    /\ drv_data.gio_r = "channel"
    /\ sources = {}
    /\ last_op.op = "set_polling"
    /\ last_op.arg = "FALSE"
    /\ last_op.pre_source > 0

\* C12: when only setting non-blocking mode fails, open returns success and
\* leaves a complete session: stream handle, buffer session, device
\* reference, callback and context set, no source installed.
C12_NonBlockFailureIsNotFatal ==
    (last_op.op = "open" /\ last_op.arg = "NonBlockFailed")
    => /\ last_op.ret = "TRUE"
       /\ pc = "idle"
       /\ Opened
       /\ drv_data.gio_r = "channel"
       /\ drv_data.buffer_data \in ScanSizes
       /\ drv_data.dev \in Devices
       /\ drv_data.callback_func \in Callbacks
       /\ drv_data.user_data = sess.ctx
       /\ drv_data.io_source = 0
       /\ sources = {}
       /\ ~nonblock
       /\ \A r \in {"drv_data", "buffer_data", "gio_r", "dev"} :
             res[r] = "live"

C12_Witness ==
    /\ last_op.op = "open"
    /\ last_op.arg = "NonBlockFailed"
    /\ last_op.ret = "TRUE"
    /\ Opened
    /\ ~nonblock

\* C19: the length each read requests, buf_size - read_size_ctr in unsigned
\* arithmetic, lies between 1 and scan_size in every reachable state, also
\* after close and open with another scan_size.
C19_ReadCountWithinBuffer ==
    pc = "reading"
    => LET count == ReadCount(ScanSize(drv_data), read_size_ctr)
       IN 1 <= count /\ count <= ScanSize(drv_data)
\* C16: read_orientation returns normally only when the loop ended on
\* G_IO_STATUS_AGAIN; on G_IO_STATUS_ERROR or G_IO_STATUS_EOF the assertion
\* aborts the process and no callback is made for that invocation, even when
\* a complete record had been captured.
C16_ReturnsOnlyOnWouldBlock ==
    /\ (inv.returned \/ (last_op.op = "read_orientation"
                         /\ last_op.ret = "G_SOURCE_CONTINUE"))
       => rd.status = "AGAIN"
    /\ rd.status \in {"ERROR", "EOF"}
       => /\ pc = "aborted"
          /\ last_op.ret = "abort"
          /\ ~inv.returned
          /\ inv.cbs = 0

C16_Witness ==
    /\ pc = "aborted"
    /\ rd.status \in {"ERROR", "EOF"}
    /\ rd.data # -1
    /\ inv.captures >= 1
    /\ inv.cbs = 0

\* C17: when an invocation returns normally every scratch buffer it
\* allocated has been freed exactly once, and process_scan read the record
\* before its buffer was freed.
C17_ScratchBuffersReleasedOnce ==
    inv.returned
    => /\ rd.live = {}
       /\ ~rd.bad
       /\ rd.frees = rd.mallocs
       /\ rd.mallocs = 1 + inv.captures
       /\ ~inv.uaf

C17_Witness ==
    /\ inv.returned
    /\ inv.captures >= 2
    /\ inv.cbs = 1
    /\ rd.mallocs >= 3
    /\ rd.live = {}

\* C20: the steps of an invocation that returns normally leave the session
\* struct, the installed source and the channel mode as they were (only the
\* reassembly counter moves), and set_polling changes nothing but the
\* registration handle.
C20_FrameEffects ==
    [][ /\ (read_orientation_enter \/ read_orientation_read
            \/ read_orientation_again)
           => /\ UNCHANGED <<drv_data, sources, nonblock, res>>
              /\ drv_data.io_source \in sources'
        /\ (\E state \in BOOLEAN : iio_buffer_accel_set_polling(state))
           => /\ UNCHANGED <<read_size_ctr, nonblock, pending, res, rd>>
              /\ drv_data' = [drv_data EXCEPT !.io_source =
                                                 drv_data'.io_source] ]_vars

C20_Witness ==
    /\ Opened
    /\ inv.returned
    /\ last_op.op = "read_orientation"
    /\ last_op.ret = "G_SOURCE_CONTINUE"
    /\ read_size_ctr > sess.ctr0
    /\ drv_data.io_source \in sources
\* C15: for a complete record with raw values (x, y, z) and scale s the
\* callback receives (-x*s, -y*s, z*s), e.g. (10, 20, 30) with scale 0.1
\* gives (-1.0, -2.0, 3.0), together with this driver's tag and the context
\* stored at open.
C15_DecodeInvertsXYOnly ==
    inv.cbs >= 1
    => /\ inv.cb_tag = "iio_buffer_accel"
       /\ inv.cb_ctx = sess.ctx
       /\ \A s \in {1, 2} :
             inv.scales = <<s, s, s>>
             => inv.reading = <<-(inv.raw[1] * s), -(inv.raw[2] * s),
                                inv.raw[3] * s>>
       /\ (inv.raw = <<10, 20, 30>> /\ inv.scales = <<1, 1, 1>>)
          => inv.reading = <<-10, -20, 30>>

C15_Witness ==
    /\ inv.cbs = 1
    /\ inv.raw = <<10, 20, 30>>
    /\ inv.scales = <<1, 1, 1>>
    /\ inv.reading = <<-10, -20, 30>>
    /\ inv.cb_ctx = "ctx2"
    /\ sess.ctx = "ctx2"
\* C18: from every state of a polling session, also with a partial record
\* accumulated, data that the stream goes on delivering (here: at least one
\* record's worth is readable) eventually leads to another callback, unless
\* the host stops polling or the process ends.  Stated for the sessions that
\* began with read_size_ctr at zero, which leaves the counter inherited from
\* an earlier session out of the question.
C18_CallbackEventuallyAgain ==
    \A k \in 0..MaxBytes :
       ( /\ Opened
         /\ pc = "idle"
         /\ nonblock
         /\ drv_data.io_source \in sources
         /\ SumSeq(pending) >= ScanSize(drv_data)
         /\ sess.ctr0 = 0
         /\ sess.cbs = k )
       ~> ( \/ sess.cbs > k
            \/ ~Opened
            \/ pc = "aborted"
            \/ drv_data.io_source = 0 )
\* C13: get_trigger_name returns "accel_3d-dev<N>", N the device's number,
\* exactly when some enumerated device has that name attribute, and NULL
\* otherwise; when it returns, the client and every enumerated device
\* reference have been released once, and the trigger_name string is either
\* the value returned or freed.
C13_TriggerFoundIffEnumerated ==
    probe.op = "get_trigger_name"
    => LET expected == "accel_3d-dev" \o probe.device.number
           present == \E i \in 1..Len(probe.devices) :
                         probe.devices[i] = expected
       IN /\ probe.ret = (IF present THEN expected ELSE "NULL")
          /\ probe.handles[<<"client", 0>>] = "freed"
          /\ \A i \in 1..Len(probe.devices) :
                probe.handles[<<"dev", i>>] = "freed"
          /\ probe.handles[<<"trigger_name", 0>>] =
                (IF present THEN "live" ELSE "freed")

\* the trigger is enumerated, but not first, and the session is open
C13_Witness ==
    /\ probe.op = "get_trigger_name"
    /\ probe.device.number = "3"
    /\ Len(probe.devices) = MaxRegistry
    /\ probe.devices[1] = "NULL"
    /\ probe.devices[MaxRegistry] = "accel_3d-dev3"
    /\ probe.ret = "accel_3d-dev3"

\* C14: discover returns TRUE exactly when the device's subsystem is "iio"
\* and its name attribute is "accel_3d" (an absent value, NULL, is a
\* mismatch), and the call changes nothing of the driver's state.
C14_DiscoverIffIioAccel ==
    [][ (probe' # probe /\ probe'.op = "discover")
        => /\ probe'.ret = (IF /\ probe'.device.subsystem = "iio"
                               /\ probe'.device.name = "accel_3d"
                            THEN "TRUE" ELSE "FALSE")
           /\ UNCHANGED <<drv_data, read_size_ctr, sources, nonblock,
                          pending, pc, rd, res>> ]_vars

\* discover refused a device with the right name on another subsystem
\* while a session was open
C14_Witness ==
    /\ probe.op = "discover"
    /\ probe.device.name = "accel_3d"
    /\ probe.device.subsystem = "usb"
    /\ probe.ret = "FALSE"
    /\ Opened
====
